---------------------------- MODULE Spec2Model ----------------------------
(***************************************************************************)
(* Model of src/lib/dbml/dbml-comments/dbml-comments.ts: extractTableOrder, *)
(* extractComments, mergeComments, parseDBMLIntoBlocks and reorderDBML.     *)
(*                                                                         *)
(* A text is a sequence of tokens; the token "\n" is the line break, " " is *)
(* one whitespace character, and every other token stands for a run of      *)
(* characters holding neither.  split('\n'), join('\n'), trim() and the     *)
(* regular expressions of the source are operators over token sequences.    *)
(***************************************************************************)
EXTENDS Integers, Sequences, FiniteSets, TLC

NL == "\n"
WS == " "

\* ------------------------------------------------------------------ tokens

\* Double-quoted names "..." and the text between the quotes.
Unquote == ("\"s\"" :> "s") @@ ("\"t\"" :> "t") @@ ("\"u\"" :> "u")
           @@ ("\"v\"" :> "v") @@ ("\"id\"" :> "id")
           @@ ("\"u.id\"" :> "u.id") @@ ("\"id.id\"" :> "id.id")
Quoted == DOMAIN Unquote

\* Tokens matched whole by \w+.
Word == {"Table", "table", "Enum", "Ref", "u", "v", "w", "e", "id", "int",
         "a", "b", "c", "m", "indexes"}

\* The characters of a name, as far as they matter: a name may hold a dot.
Chars(name) ==
    IF name = "u.id" THEN <<"u", ".", "id">>
    ELSE IF name = "id.id" THEN <<"id", ".", "id">>
    ELSE <<name>>

\* The template literal `${a}.${b}`
Key(a, b) == Chars(a) \o <<".">> \o Chars(b)

Undefined == "<undefined>"
Null == "<null>"

\* The /i flag of the header patterns.
IsTableKw(t) == t \in {"Table", "table"}
IsEnumKw(t) == t = "Enum"
IsRefKw(t) == t = "Ref"

\* ------------------------------------------------------- strings and lines

RECURSIVE SplitFrom(_, _, _, _)
SplitFrom(text, k, cur, acc) ==
    IF k > Len(text) THEN Append(acc, cur)
    ELSE IF text[k] = NL THEN SplitFrom(text, k + 1, <<>>, Append(acc, cur))
    ELSE SplitFrom(text, k + 1, Append(cur, text[k]), acc)

\* text.split('\n'): never empty, "" gives one empty line.
Split(text) == SplitFrom(text, 1, <<>>, <<>>)

RECURSIVE JoinFrom(_, _)
JoinFrom(parts, k) ==
    IF k > Len(parts) THEN <<>>
    ELSE IF k = Len(parts) THEN parts[k]
    ELSE parts[k] \o <<NL>> \o JoinFrom(parts, k + 1)

\* parts.join('\n')
Join(parts) == JoinFrom(parts, 1)

\* line.trim()
Trim(line) ==
    LET solid == {k \in 1..Len(line) : line[k] # WS /\ line[k] # NL}
    IN
    IF solid = {} THEN <<>>
    ELSE LET lo == CHOOSE k \in solid : \A m \in solid : k <= m
             hi == CHOOSE k \in solid : \A m \in solid : k >= m
         IN  SubSeq(line, lo, hi)

\* (line.match(/{/g) || []).length and the same for }
CountOf(line, tok) == Cardinality({k \in 1..Len(line) : line[k] = tok})

\* line.includes(tok)
Includes(line, tok) == \E k \in 1..Len(line) : line[k] = tok

\* text.endsWith('\n')
EndsWithNL(text) == Len(text) > 0 /\ text[Len(text)] = NL

\* EnsureNewline leaving the empty text empty.
EnsureNewlineIfText(text) ==
    IF text = <<>> \/ EndsWithNL(text) THEN text ELSE Append(text, NL)

\* if (!result.endsWith('\n')) result += '\n'
EnsureNewline(text) == IF EndsWithNL(text) THEN text ELSE Append(text, NL)

\* First index after position k holding no whitespace, 0 if none.
SkipWS(line, k) ==
    LET rest == {m \in (k + 1)..Len(line) : line[m] # WS}
    IN  IF rest = {} THEN 0 ELSE CHOOSE m \in rest : \A r \in rest : m <= r

\* /^Table\s+(?:"([^"]+)"\.)?(?:"([^"]+)"|(\w+))/i on a trimmed line:
\* ok, and the groups g1 (schema), g2 (quoted name), g3 (bare name).
NoMatch == [ok |-> FALSE, g1 |-> Undefined, g2 |-> Undefined, g3 |-> Undefined]
TableMatch(tl) ==
    IF ~(Len(tl) >= 3 /\ IsTableKw(tl[1]) /\ tl[2] = WS) THEN NoMatch
    ELSE LET p == SkipWS(tl, 1)
         IN  IF p = 0 THEN NoMatch
             ELSE IF /\ p + 2 <= Len(tl)
                     /\ tl[p] \in Quoted
                     /\ tl[p + 1] = "."
                     /\ tl[p + 2] \in Quoted \cup Word
             THEN [ok |-> TRUE, g1 |-> Unquote[tl[p]],
                   g2 |-> IF tl[p + 2] \in Quoted THEN Unquote[tl[p + 2]] ELSE Undefined,
                   g3 |-> IF tl[p + 2] \in Quoted THEN Undefined ELSE tl[p + 2]]
             ELSE IF tl[p] \in Quoted
             THEN [ok |-> TRUE, g1 |-> Undefined, g2 |-> Unquote[tl[p]], g3 |-> Undefined]
             ELSE IF tl[p] \in Word
             THEN [ok |-> TRUE, g1 |-> Undefined, g2 |-> Undefined, g3 |-> tl[p]]
             ELSE NoMatch

\* a || b for strings: undefined (and '') are falsy.
OrElse(a, b) == IF a # Undefined THEN a ELSE b

\* /^Enum\s+/i on a trimmed line
EnumMatch(tl) == Len(tl) >= 2 /\ IsEnumKw(tl[1]) /\ tl[2] = WS

\* /^Ref\s*[:{]/i on a trimmed line
RefMatch(tl) ==
    /\ Len(tl) >= 2
    /\ IsRefKw(tl[1])
    /\ LET p == SkipWS(tl, 1) IN p # 0 /\ tl[p] \in {":", "{"}

\* /^\/\/(.*)$/ on a trimmed line
SingleLineMatch(tl) == Len(tl) >= 1 /\ tl[1] = "//"

\* /^(.+?)(\/\/.*)$/ on the raw line: the first // with something before it.
InlineAt(line) ==
    LET at == {k \in 2..Len(line) : line[k] = "//"}
    IN  IF at = {} THEN 0 ELSE CHOOSE k \in at : \A m \in at : k <= m

\* /^"([^"]+)"/ : the quoted name opening the text, Undefined if none.
FieldMatch(code) ==
    IF Len(code) >= 1 /\ code[1] \in Quoted THEN Unquote[code[1]] ELSE Undefined

\* /^\/\*/ on a trimmed line
MultiLineStart(tl) == Len(tl) >= 1 /\ tl[1] = "/*"

\* ---------------------------------------------------------- extractComments

\* A DBMLComment; an absent context field is Undefined.
Comment(type, text, tableName, fieldName) ==
    [type |-> type, text |-> text, tableName |-> tableName, fieldName |-> fieldName]

Falsy(x) == x \in {Null, Undefined, ""}

\* lines[k] of the source, k counted from 0.
LineAt(lines, k) == lines[k + 1]

\* The locals of extractComments before the loop.  pendingLine holds, for each
\* buffered text, the index of the source line it starts on, and commentLine,
\* for each emitted record, the indices of the source lines its texts start
\* on (history, not read by the code).
ExtractStart ==
    [i |-> 0, currentTable |-> Null, inTableBlock |-> FALSE, braceDepth |-> 0,
     foundFirstDefinition |-> FALSE, pendingComments |-> <<>>, comments |-> <<>>,
     pendingLine |-> <<>>, commentLine |-> <<>>]

Emit(s, c, at) ==
    [s EXCEPT !.comments = Append(@, c), !.commentLine = Append(@, at)]

Buffer(s, text, at) ==
    [s EXCEPT !.pendingComments = Append(@, text), !.pendingLine = Append(@, at)]

\* comments.push({type, text: pendingComments.join('\n'), ...}); pendingComments = []
FlushPending(s, type, tableName) ==
    [Emit(s, Comment(type, Join(s.pendingComments), tableName, Undefined),
          s.pendingLine)
     EXCEPT !.pendingComments = <<>>, !.pendingLine = <<>>]

\* ExtractTable with the pending comments flushed before currentTable is
\* set: a Table record goes to the table that was open before this header.
ExtractTableStaleAnchor(s, tl) ==
    LET tableMatch == TableMatch(tl)
        name == OrElse(tableMatch.g2, OrElse(tableMatch.g3, OrElse(tableMatch.g1, "")))
        s1 == IF Len(s.pendingComments) > 0
              THEN IF ~s.foundFirstDefinition
                   THEN FlushPending(s, "header", Undefined)
                   ELSE FlushPending(s, "table", s.currentTable)
              ELSE s
    IN  IF tableMatch.ok
        THEN [s1 EXCEPT !.currentTable = name, !.inTableBlock = TRUE,
                        !.foundFirstDefinition = TRUE]
        ELSE s

\* The table header branch.
ExtractTable(s, tl) ==
    LET tableMatch == TableMatch(tl)
        name == OrElse(tableMatch.g2, OrElse(tableMatch.g3, OrElse(tableMatch.g1, "")))
        s1 == [s EXCEPT !.currentTable = name, !.inTableBlock = TRUE]
        s2 == IF Len(s1.pendingComments) > 0
              THEN IF ~s1.foundFirstDefinition
                   THEN FlushPending(s1, "header", Undefined)
                   ELSE FlushPending(s1, "table", s1.currentTable)
              ELSE s1
    IN  IF tableMatch.ok THEN [s2 EXCEPT !.foundFirstDefinition = TRUE] ELSE s

\* ExtractEnum emptying the pending buffer it does not flush.
ExtractEnumClearsPending(s, tl) ==
    LET s1 == [s EXCEPT !.foundFirstDefinition = TRUE]
    IN  IF ~EnumMatch(tl) THEN s
        ELSE IF Len(s1.pendingComments) > 0 /\ Falsy(s1.currentTable)
        THEN FlushPending(s1, "header", Undefined)
        ELSE [s1 EXCEPT !.pendingComments = <<>>, !.pendingLine = <<>>]

\* The Enum header branch.
ExtractEnum(s, tl) ==
    LET s1 == [s EXCEPT !.foundFirstDefinition = TRUE]
    IN  IF ~EnumMatch(tl) THEN s
        ELSE IF Len(s1.pendingComments) > 0 /\ Falsy(s1.currentTable)
        THEN FlushPending(s1, "header", Undefined)
        ELSE s1

\* ExtractPlace without the braceDepth condition.
ExtractPlaceAnyDepth(s, text) ==
    IF ~s.foundFirstDefinition THEN Buffer(s, text, s.i)
    ELSE IF s.inTableBlock
    THEN Emit(s, Comment("field", text,
                         IF Falsy(s.currentTable) THEN Undefined ELSE s.currentTable,
                         Undefined), <<s.i>>)
    ELSE Buffer(s, text, s.i)

\* Where a full-line or multi-line comment text goes.
ExtractPlace(s, text) ==
    IF ~s.foundFirstDefinition THEN Buffer(s, text, s.i)
    ELSE IF s.inTableBlock /\ s.braceDepth > 0
    THEN Emit(s, Comment("field", text,
                         IF Falsy(s.currentTable) THEN Undefined ELSE s.currentTable,
                         Undefined), <<s.i>>)
    ELSE Buffer(s, text, s.i)

\* ExtractInline without the inTableBlock condition.
ExtractInlineAnywhere(s, line, tl) ==
    LET k == InlineAt(line)
        codePart == Trim(SubSeq(line, 1, k - 1))
        commentPart == SubSeq(line, k, Len(line))
        fieldName == FieldMatch(codePart)
    IN  IF k # 0 /\ ~SingleLineMatch(tl) /\ fieldName # Undefined
        THEN Emit(s, Comment("inline", commentPart,
                             IF Falsy(s.currentTable) THEN Undefined ELSE s.currentTable,
                             fieldName), <<s.i>>)
        ELSE s

\* The inline comment branch.
ExtractInline(s, line, tl) ==
    LET k == InlineAt(line)
        codePart == Trim(SubSeq(line, 1, k - 1))
        commentPart == SubSeq(line, k, Len(line))
        fieldName == FieldMatch(codePart)
    IN  IF k # 0 /\ ~SingleLineMatch(tl) /\ fieldName # Undefined /\ s.inTableBlock
        THEN Emit(s, Comment("inline", commentPart,
                             IF Falsy(s.currentTable) THEN Undefined ELSE s.currentTable,
                             fieldName), <<s.i>>)
        ELSE s

\* The j the inner while loop stops at: the first line from i on that
\* includes "*/", lines.length if there is none.
MultiLineEnd(lines, i) ==
    LET ends == {j \in i..(Len(lines) - 1) : Includes(LineAt(lines, j), "*/")}
    IN  IF ends = {} THEN Len(lines) ELSE CHOOSE j \in ends : \A m \in ends : j <= m

\* multiLineComment: lines i..j joined, j capped at the last line.
MultiLineText(lines, i) ==
    LET j == MultiLineEnd(lines, i)
        last == IF j < Len(lines) THEN j ELSE Len(lines) - 1
    IN  Join(SubSeq(lines, i + 1, last + 1))

\* ExtractMultiLine without i = j: the lines consumed are scanned again.
ExtractMultiLineNoSkip(s, lines, tl) ==
    IF MultiLineStart(tl) THEN ExtractPlace(s, MultiLineText(lines, s.i)) ELSE s

\* The multi-line comment branch; i = j skips the lines consumed.
ExtractMultiLine(s, lines, tl) ==
    IF MultiLineStart(tl)
    THEN [ExtractPlace(s, MultiLineText(lines, s.i)) EXCEPT !.i = MultiLineEnd(lines, s.i)]
    ELSE s

\* braceDepth update, the table exit check, and the loop's i++.
ExtractBraces(s, line) ==
    LET openBraces == CountOf(line, "{")
        closeBraces == CountOf(line, "}")
        depth == s.braceDepth + openBraces - closeBraces
        s1 == [s EXCEPT !.braceDepth = depth]
        s2 == IF s1.inTableBlock /\ depth = 0 /\ closeBraces > 0
              THEN [s1 EXCEPT !.inTableBlock = FALSE, !.currentTable = Null]
              ELSE s1
    IN  [s2 EXCEPT !.i = @ + 1]

\* One iteration of the for loop of extractComments, on lines[s.i].
ExtractIter(lines, s) ==
    LET line == LineAt(lines, s.i)
        trimmedLine == Trim(line)
        s1 == ExtractTable(s, trimmedLine)
        s2 == ExtractEnum(s1, trimmedLine)
        s3 == IF SingleLineMatch(trimmedLine) THEN ExtractPlace(s2, line) ELSE s2
        s4 == ExtractInline(s3, line, trimmedLine)
        s5 == ExtractMultiLine(s4, lines, trimmedLine)
    IN  ExtractBraces(s5, line)

\* After the loop: what is still pending becomes a header or a footer.
ExtractFlush(s) ==
    IF Len(s.pendingComments) > 0
    THEN IF ~s.foundFirstDefinition
         THEN FlushPending(s, "header", Undefined)
         ELSE FlushPending(s, "footer", Undefined)
    ELSE s

RECURSIVE ExtractLoop(_, _)
ExtractLoop(lines, s) ==
    IF s.i < Len(lines) THEN ExtractLoop(lines, ExtractIter(lines, s)) ELSE ExtractFlush(s)

\* extractComments(dbml)
ExtractComments(dbml) == ExtractLoop(Split(dbml), ExtractStart).comments

\* -------------------------------------------------------- extractTableOrder

\* A DBMLTableOrder entry.
OrderEntry(tableName, schemaName) == [tableName |-> tableName, schemaName |-> schemaName]

RECURSIVE TableOrderFrom(_, _)
TableOrderFrom(lines, k) ==
    IF k > Len(lines) THEN <<>>
    ELSE LET tableMatch == TableMatch(Trim(lines[k]))
             entry == OrderEntry(OrElse(tableMatch.g2, OrElse(tableMatch.g3, "")),
                                 tableMatch.g1)
         IN  (IF tableMatch.ok THEN <<entry>> ELSE <<>>) \o TableOrderFrom(lines, k + 1)

\* extractTableOrder(dbml)
ExtractTableOrder(dbml) == TableOrderFrom(Split(dbml), 1)

\* ------------------------------------------------------------ mergeComments

\* An entry of result: the text pushed, and why and at which line of the
\* regenerated text it was pushed (history, not read by the code).
Pushed(text, from, line) == [text |-> text, from |-> from, line |-> line]

PushAll(result, texts, from, line) ==
    result \o [k \in 1..Len(texts) |-> Pushed(texts[k], from, line)]

TextsOf(cs) == [k \in 1..Len(cs) |-> cs[k].text]

\* comments.filter((c) => c.type === type), as texts
CommentsOfType(cs, type) == TextsOf(SelectSeq(cs, LAMBDA c : c.type = type))

\* tableComments.get(name) and fieldComments.get(name) after the pre-pass: the
\* texts of the records of that type and table, in list order.
BucketOf(cs, type, name) ==
    TextsOf(SelectSeq(cs, LAMBDA c :
        c.type = type /\ ~Falsy(c.tableName) /\ c.tableName = name))

\* inlineFieldComments.get(`${table}.${field}`) after the pre-pass: the text of
\* the last inline record with that key, if there is one.
InlineOf(cs, table, field) ==
    LET at == {k \in 1..Len(cs) :
                  /\ cs[k].type = "inline"
                  /\ ~Falsy(cs[k].tableName) /\ ~Falsy(cs[k].fieldName)
                  /\ Key(cs[k].tableName, cs[k].fieldName) = Key(table, field)}
    IN  IF at = {} THEN [found |-> FALSE, text |-> <<>>]
        ELSE [found |-> TRUE,
              text |-> cs[CHOOSE k \in at : \A m \in at : k >= m].text]

\* The locals of mergeComments when the for loop starts: the header comments
\* and the blank line after them are in result (lines.length > 0 holds for
\* every text: split yields at least one line).
MergeStart(cs) ==
    LET headerComments == CommentsOfType(cs, "header")
        headers == PushAll(<<>>, headerComments, "header", -1)
    IN  [i |-> 0,
         result |-> IF Len(headerComments) > 0
                    THEN Append(headers, Pushed(<<>>, "blank", -1))
                    ELSE headers,
         currentTable |-> Null, inTableBlock |-> FALSE, braceDepth |-> 0,
         tableFieldCommentsAdded |-> FALSE]

\* The table header branch: the table's comments go before its header.
MergeTable(cs, s, tl) ==
    LET tableMatch == TableMatch(tl)
        name == OrElse(tableMatch.g2, OrElse(tableMatch.g3, OrElse(tableMatch.g1, "")))
    IN  IF tableMatch.ok
        THEN [s EXCEPT !.currentTable = name, !.inTableBlock = TRUE,
                       !.tableFieldCommentsAdded = FALSE,
                       !.result = PushAll(@, BucketOf(cs, "table", name), "table", s.i)]
        ELSE s

\* The field comments of the table go in once, at the first line met inside it.
MergeField(cs, s) ==
    IF /\ s.inTableBlock /\ s.braceDepth > 0
       /\ ~s.tableFieldCommentsAdded /\ ~Falsy(s.currentTable)
    THEN [s EXCEPT !.result = PushAll(@, BucketOf(cs, "field", s.currentTable),
                                      "field", s.i),
                   !.tableFieldCommentsAdded = TRUE]
    ELSE s

\* braceDepth update and the table exit check.
MergeBraces(s, line) ==
    LET openBraces == CountOf(line, "{")
        closeBraces == CountOf(line, "}")
        depth == s.braceDepth + openBraces - closeBraces
        s1 == [s EXCEPT !.braceDepth = depth]
    IN  IF s1.inTableBlock /\ depth = 0 /\ closeBraces > 0
        THEN [s1 EXCEPT !.inTableBlock = FALSE, !.currentTable = Null]
        ELSE s1

\* MergePushLine pushing the inline comment in place of the field line.
MergePushLineReplaces(cs, s, line, tl) ==
    LET fieldName == FieldMatch(tl)
        inlineComment == InlineOf(cs, s.currentTable, fieldName)
    IN  IF /\ s.inTableBlock /\ ~Falsy(s.currentTable)
           /\ fieldName # Undefined
           /\ inlineComment.found /\ inlineComment.text # <<>>
           /\ ~Includes(line, "//")
        THEN [s EXCEPT !.result = Append(@, Pushed(inlineComment.text, "inline", s.i))]
        ELSE [s EXCEPT !.result = Append(@, Pushed(line, "line", s.i))]

\* The line is pushed, with its inline comment if it is a field line that has one.
MergePushLine(cs, s, line, tl) ==
    LET fieldName == FieldMatch(tl)
        inlineComment == InlineOf(cs, s.currentTable, fieldName)
    IN  IF /\ s.inTableBlock /\ ~Falsy(s.currentTable)
           /\ fieldName # Undefined
           /\ inlineComment.found /\ inlineComment.text # <<>>
           /\ ~Includes(line, "//")
        THEN [s EXCEPT !.result =
                 Append(@, Pushed(line \o <<WS>> \o inlineComment.text, "inline", s.i))]
        ELSE [s EXCEPT !.result = Append(@, Pushed(line, "line", s.i))]

\* One iteration of the for loop of mergeComments, on lines[s.i].
MergeIter(cs, lines, s) ==
    LET line == LineAt(lines, s.i)
        trimmedLine == Trim(line)
        s1 == MergeField(cs, MergeTable(cs, s, trimmedLine))
        s2 == MergeBraces(MergePushLine(cs, s1, line, trimmedLine), line)
    IN  [s2 EXCEPT !.i = @ + 1]

RECURSIVE MergeLoop(_, _, _)
MergeLoop(cs, lines, s) ==
    IF s.i < Len(lines) THEN MergeLoop(cs, lines, MergeIter(cs, lines, s)) ELSE s

\* After the loop: a blank line and the footer comments.
MergeFooter(cs, s) ==
    LET footerComments == CommentsOfType(cs, "footer")
    IN  IF Len(footerComments) > 0
        THEN [s EXCEPT !.result =
                 PushAll(Append(@, Pushed(<<>>, "blank", s.i)), footerComments,
                         "footer", s.i)]
        ELSE s

\* result.join('\n')
JoinResult(result) == Join([k \in 1..Len(result) |-> result[k].text])

\* mergeComments ending the text it hands back in a line break, as reorderDBML does.
MergeCommentsNewlineEnded(text, cs) ==
    IF Len(cs) = 0 THEN EnsureNewline(text)
    ELSE JoinResult(MergeFooter(cs, MergeLoop(cs, Split(text), MergeStart(cs))).result)

\* mergeComments(regeneratedDbml, comments)
MergeComments(text, cs) ==
    IF Len(cs) = 0 THEN text
    ELSE JoinResult(MergeFooter(cs, MergeLoop(cs, Split(text), MergeStart(cs))).result)

\* ------------------------------------------------------ parseDBMLIntoBlocks

\* A DBMLBlock.  line is the index of the block's first line in the text
\* that was parsed (history, not read by the code).
Block(type, content, tableName, schemaName, line) ==
    [type |-> type, content |-> content, tableName |-> tableName,
     schemaName |-> schemaName, line |-> line]

\* The locals of parseDBMLIntoBlocks before the loop; currentLine is the index
\* of the first line of currentBlock (history).
ParseStart ==
    [i |-> 0, blocks |-> <<>>, currentBlock |-> <<>>, currentType |-> Null,
     currentTableName |-> Undefined, currentSchemaName |-> Undefined,
     braceDepth |-> 0, currentLine |-> 0]

\* flushBlock()
FlushBlock(s) ==
    [s EXCEPT
       !.blocks = IF Len(s.currentBlock) > 0 /\ s.currentType # Null
                  THEN Append(@, Block(s.currentType, Join(s.currentBlock),
                                       s.currentTableName, s.currentSchemaName,
                                       s.currentLine))
                  ELSE @,
       !.currentBlock = <<>>, !.currentType = Null,
       !.currentTableName = Undefined, !.currentSchemaName = Undefined]

\* A header at brace depth 0 closes the open block and opens a new one.
ParseHeader(s, tl) ==
    LET tableMatch == TableMatch(tl)
        s1 == IF tableMatch.ok
              THEN [FlushBlock(s) EXCEPT
                      !.currentType = "table",
                      !.currentSchemaName = tableMatch.g1,
                      !.currentTableName = OrElse(tableMatch.g2, OrElse(tableMatch.g3, "")),
                      !.currentLine = s.i]
              ELSE s
        s2 == IF EnumMatch(tl)
              THEN [FlushBlock(s1) EXCEPT !.currentType = "enum", !.currentLine = s.i]
              ELSE s1
        s3 == IF RefMatch(tl)
              THEN [FlushBlock(s2) EXCEPT !.currentType = "ref", !.currentLine = s.i]
              ELSE s2
    IN  IF s.braceDepth = 0 THEN s3 ELSE s

\* ParseAddLine dropping every blank line met while no block is open.
ParseAddLineNoBlank(s, line, tl) ==
    IF s.currentType # Null THEN [s EXCEPT !.currentBlock = Append(@, line)]
    ELSE IF tl # <<>>
    THEN [s EXCEPT !.blocks = Append(@, Block("other", line, Undefined, Undefined, s.i))]
    ELSE s

\* The line goes to the open block, or becomes a standalone 'other' block.
ParseAddLine(s, line, tl) ==
    IF s.currentType # Null THEN [s EXCEPT !.currentBlock = Append(@, line)]
    ELSE IF tl # <<>>
    THEN [s EXCEPT !.blocks = Append(@, Block("other", line, Undefined, Undefined, s.i))]
    ELSE IF Len(s.blocks) > 0
    THEN [s EXCEPT !.blocks = Append(@, Block("other", <<>>, Undefined, Undefined, s.i))]
    ELSE s

\* One iteration of the for loop of parseDBMLIntoBlocks, on lines[s.i].
ParseIter(lines, s) ==
    LET line == LineAt(lines, s.i)
        trimmedLine == Trim(line)
        openBraces == CountOf(line, "{")
        closeBraces == CountOf(line, "}")
        s1 == ParseAddLine(ParseHeader(s, trimmedLine), line, trimmedLine)
        s2 == [s1 EXCEPT !.braceDepth = @ + openBraces - closeBraces]
        s3 == IF s2.currentType # Null /\ s2.braceDepth = 0 /\ closeBraces > 0
              THEN FlushBlock(s2)
              ELSE s2
    IN  [s3 EXCEPT !.i = @ + 1]

RECURSIVE ParseLoop(_, _)
ParseLoop(lines, s) ==
    IF s.i < Len(lines) THEN ParseLoop(lines, ParseIter(lines, s)) ELSE FlushBlock(s)

\* parseDBMLIntoBlocks(dbml)
ParseDBMLIntoBlocks(text) == ParseLoop(Split(text), ParseStart).blocks

\* -------------------------------------------------------------- reorderDBML

\* blocks of one type, in order
BlocksOfType(blocks, type) == SelectSeq(blocks, LAMBDA b : b.type = type)

\* `${schemaName}.${tableName}` if there is a schema, else tableName
FullKey(item) ==
    IF ~Falsy(item.schemaName) THEN Key(item.schemaName, item.tableName)
    ELSE Chars(item.tableName)

\* OrderMapOf keeping the first index set for a key.
RECURSIVE OrderMapOfFirstWins(_, _)
OrderMapOfFirstWins(originalOrderList, n) ==
    IF n = 0 THEN <<>>
    ELSE LET item == originalOrderList[n]
         IN  OrderMapOfFirstWins(originalOrderList, n - 1)
             @@ (Chars(item.tableName) :> (n - 1)) @@ (FullKey(item) :> (n - 1))

\* orderMap after originalOrder.forEach over the first n entries (index from 0):
\* a later set() of a key replaces the earlier one.
RECURSIVE OrderMapOf(_, _)
OrderMapOf(originalOrderList, n) ==
    IF n = 0 THEN <<>>
    ELSE LET item == originalOrderList[n]
         IN  (Chars(item.tableName) :> (n - 1)) @@ (FullKey(item) :> (n - 1))
             @@ OrderMapOf(originalOrderList, n - 1)

Infinity == -1

\* orderMap.get(key) ?? orderMap.get(tableName || '') ?? Infinity
OrderOf(orderMap, block) ==
    IF FullKey(block) \in DOMAIN orderMap THEN orderMap[FullKey(block)]
    ELSE IF Chars(block.tableName) \in DOMAIN orderMap
    THEN orderMap[Chars(block.tableName)]
    ELSE Infinity

\* SortsAfter with a table that is not in orderMap given the order -1.
SortsAfterNotFoundFirst(orderMap, a, b) ==
    OrderOf(orderMap, a) - OrderOf(orderMap, b) > 0

\* The sort callback says a comes after b: aOrder - bOrder > 0.
\* Infinity - Infinity is NaN, which sort takes as 0.
SortsAfter(orderMap, a, b) ==
    LET aOrder == OrderOf(orderMap, a)
        bOrder == OrderOf(orderMap, b)
    IN  IF aOrder = Infinity THEN bOrder # Infinity
        ELSE IF bOrder = Infinity THEN FALSE
        ELSE aOrder - bOrder > 0

\* x put into a sorted list behind every element it does not sort before.
RECURSIVE InsertSorted(_, _, _)
InsertSorted(orderMap, sorted, x) ==
    IF sorted = <<>> THEN <<x>>
    ELSE IF SortsAfter(orderMap, sorted[Len(sorted)], x)
    THEN Append(InsertSorted(orderMap, SubSeq(sorted, 1, Len(sorted) - 1), x),
                sorted[Len(sorted)])
    ELSE Append(sorted, x)

\* [...tableBlocks].sort(callback): Array.prototype.sort is stable.
RECURSIVE SortTableBlocks(_, _, _)
SortTableBlocks(orderMap, tableBlocks, n) ==
    IF n = 0 THEN <<>>
    ELSE InsertSorted(orderMap, SortTableBlocks(orderMap, tableBlocks, n - 1),
                      tableBlocks[n])

\* An entry of resultParts: the text pushed, and the block it is the content
\* of (history: type and line of the block, "separator" for a pushed '').
Part(block) == [content |-> block.content, type |-> block.type, line |-> block.line]
Parts(blocks) == [k \in 1..Len(blocks) |-> Part(blocks[k])]
Separator == [content |-> <<>>, type |-> "separator", line |-> -1]

\* resultParts with the refs pushed before the tables.
ResultPartsRefsFirst(enumBlocks, sortedTableBlocks, refBlocks) ==
    Parts(enumBlocks)
    \o (IF Len(refBlocks) > 0 THEN <<Separator>> \o Parts(refBlocks) ELSE <<>>)
    \o (IF Len(enumBlocks) > 0 /\ Len(sortedTableBlocks) > 0 THEN <<Separator>> ELSE <<>>)
    \o Parts(sortedTableBlocks)

\* resultParts: enums, a separator, the sorted tables, a separator and the refs.
ResultParts(enumBlocks, sortedTableBlocks, refBlocks) ==
    Parts(enumBlocks)
    \o (IF Len(enumBlocks) > 0 /\ Len(sortedTableBlocks) > 0 THEN <<Separator>> ELSE <<>>)
    \o Parts(sortedTableBlocks)
    \o (IF Len(refBlocks) > 0 THEN <<Separator>> \o Parts(refBlocks) ELSE <<>>)

\* resultParts.join('\n')
JoinParts(parts) == Join([k \in 1..Len(parts) |-> parts[k].content])

\* result.replace(/\n\s*\n\s*\n/g, '\n\n') from position p on: a line break,
\* then the longest run of whitespace that holds two more line breaks and ends
\* in one, becomes two line breaks.
RECURSIVE CollapseFrom(_, _)
CollapseFrom(text, p) ==
    IF p > Len(text) THEN <<>>
    ELSE LET solid == {k \in (p + 1)..Len(text) : text[k] # WS /\ text[k] # NL}
             q == IF solid = {} THEN Len(text) + 1
                  ELSE CHOOSE k \in solid : \A m \in solid : k <= m
             breaks == {k \in (p + 1)..(q - 1) : text[k] = NL}
             last == CHOOSE k \in breaks : \A m \in breaks : k >= m
         IN  IF text[p] = NL /\ Cardinality(breaks) >= 2
             THEN <<NL, NL>> \o CollapseFrom(text, last + 1)
             ELSE <<text[p]>> \o CollapseFrom(text, p + 1)

CollapseBlankLines(text) == CollapseFrom(text, 1)

\* reorderDBML after parseDBMLIntoBlocks: the blocks by type and the sort.
ReorderSort(blocks, originalOrderList) ==
    LET tableBlocks == BlocksOfType(blocks, "table")
        orderMap == OrderMapOf(originalOrderList, Len(originalOrderList))
    IN  [blocks |-> blocks,
         enumBlocks |-> BlocksOfType(blocks, "enum"),
         tableBlocks |-> tableBlocks,
         refBlocks |-> BlocksOfType(blocks, "ref"),
         sortedTableBlocks |-> SortTableBlocks(orderMap, tableBlocks, Len(tableBlocks)),
         resultParts |-> <<>>]

\* reorderDBML after the sort: resultParts.
ReorderParts(r) ==
    [r EXCEPT !.resultParts =
        ResultParts(r.enumBlocks, r.sortedTableBlocks, r.refBlocks)]

\* The text reorderDBML returns.
ReorderResult(r) == EnsureNewline(CollapseBlankLines(JoinParts(r.resultParts)))

\* reorderDBML(regeneratedDbml, originalOrder)
ReorderDBML(text, originalOrderList) ==
    ReorderResult(ReorderParts(ReorderSort(ParseDBMLIntoBlocks(text), originalOrderList)))

\* ------------------------------------------------------------------ inputs

\* Sequences over S of length lo..hi.
SeqsOf(S, lo, hi) == UNION {[1..n -> S] : n \in lo..hi}

MaxSourceLines == 4

\* Lines of an original source handed to extractComments.
SourceLines ==
    { <<"Table", WS, "u", WS, "{">>,
      <<"Table", WS, "\"s\"", ".", "\"v\"", WS, "{">>,
      <<"}">>,
      <<WS, "\"id\"", WS, "int", WS, "//", WS, "a">>,
      <<"//", WS, "c">>,
      <<"/*", WS, "m">>,
      <<"}", WS, "*/">>,
      <<"Enum", WS, "e", WS, "{">>,
      <<>> }

SourceTexts == {Join(ls) : ls \in SeqsOf(SourceLines, 1, MaxSourceLines)}

MaxRegenBlocks == 3
MaxOrder == 3

\* Pieces of a regenerated text handed to reorderDBML: whole blocks, block
\* headers left open, stray lines and blank lines.
RegenPieces ==
    { <<"Table", WS, "u", WS, "{", NL, "}">>,
      <<"Table", WS, "v", WS, "{", "}">>,
      <<"Table", WS, "\"s\"", ".", "\"u\"", WS, "{", NL, "}">>,
      <<"Table", WS, "w", WS, "{">>,
      <<"Enum", WS, "e", WS, "{", NL, "}">>,
      <<"Ref", ":", WS, "u", WS, ">", WS, "v">> }

RegenTexts == {Join(ps) : ps \in SeqsOf(RegenPieces, 1, MaxRegenBlocks)}

OrderEntries ==
    {OrderEntry("u", Undefined), OrderEntry("v", Undefined), OrderEntry("u", "s")}

OriginalOrders == SeqsOf(OrderEntries, 0, MaxOrder)

MaxBlankPieces == 4

\* Pieces of a regenerated text with blank lines in and after its blocks.
BlankPieces ==
    { <<"Table", WS, "u", WS, "{", NL, "}">>,
      <<"Table", WS, "w", WS, "{">>,
      <<"Ref", ":", WS, "u", WS, ">", WS, "v">>,
      <<>>,
      <<WS, WS>> }

BlankTexts == {Join(ps) : ps \in SeqsOf(BlankPieces, 1, MaxBlankPieces)}

ShortOrders == {<<>>} \cup {<<e>> : e \in OrderEntries}

MaxLookupBlocks == 3

\* Regenerated texts of tables that share a bare name or a schema-qualified
\* name with the entries of the original order.
LookupPieces ==
    { <<"Table", WS, "u", WS, "{", NL, "}">>,
      <<"Table", WS, "v", WS, "{", "}">>,
      <<"Table", WS, "\"s\"", ".", "\"u\"", WS, "{", NL, "}">>,
      <<"Table", WS, "\"t\"", ".", "\"u\"", WS, "{", NL, "}">> }

LookupTexts == {Join(ps) : ps \in SeqsOf(LookupPieces, 1, MaxLookupBlocks)}

MaxStrayPieces == 3

\* Pieces of a regenerated text with unbalanced and stray braces and with a
\* line that holds a brace outside any block.
StrayPieces ==
    { <<"Table", WS, "u", WS, "{", NL, "}">>,
      <<"Table", WS, "v", WS, "{", "}">>,
      <<"Table", WS, "w", WS, "{">>,
      <<"Ref", ":", WS, "u", WS, ">", WS, "v">>,
      <<"}">>,
      <<"x", WS, "{">>,
      <<>> }

StrayTexts == {Join(ps) : ps \in SeqsOf(StrayPieces, 1, MaxStrayPieces)}

MaxParseLines == 4

\* Lines of a text handed to parseDBMLIntoBlocks: headers, a block on one
\* line, a closing brace, a line that belongs to no block and blank lines.
ParseLines ==
    { <<"Table", WS, "u", WS, "{">>,
      <<"Table", WS, "v", WS, "{", "}">>,
      <<"Enum", WS, "e", WS, "{">>,
      <<"Ref", ":", WS, "u", WS, ">", WS, "v">>,
      <<"}">>,
      <<"//", WS, "c">>,
      <<>>,
      <<WS, WS>> }

ParseTexts == {Join(ls) : ls \in SeqsOf(ParseLines, 1, MaxParseLines)}

MaxMergeInput == 4

\* Pieces of a regenerated text handed to mergeComments.
MergePieces ==
    { <<"Table", WS, "u", WS, "{">>,
      <<WS, "\"id\"", WS, "int">>,
      <<WS, "\"id.id\"", WS, "int">>,
      <<"}">>,
      <<"Table", WS, "v", WS, "{", "}">>,
      <<WS, "indexes", WS, "{">>,
      <<>> }

\* Records of a comment list handed to mergeComments.
MergeRecords ==
    { Comment("header", <<"//", WS, "c">>, Undefined, Undefined),
      Comment("table", <<"//", WS, "c">>, "u", Undefined),
      Comment("field", <<"//", WS, "m">>, "u", Undefined),
      Comment("field", <<"//", WS, "m">>, "v", Undefined),
      Comment("inline", <<"//", WS, "a">>, "u", "id"),
      Comment("inline", <<"//", WS, "b">>, "u", "id"),
      Comment("inline", <<"//", WS, "b">>, "u.id", "id"),
      Comment("footer", <<"//", WS, "c">>, Undefined, Undefined) }

\* A regenerated text of p pieces with a comment list, MaxMergeInput pieces
\* and records in all.
MergeInputs ==
    UNION { {Join(ps) : ps \in SeqsOf(MergePieces, p, p)}
            \X SeqsOf(MergeRecords, 0, MaxMergeInput - p) : p \in 1..MaxMergeInput }

MaxPipelinePieces == 3

\* Pieces of an original source that goes through the whole round trip.
PipelinePieces ==
    { <<"Table", WS, "\"s\"", ".", "\"u\"", WS, "{", NL,
        WS, "\"id\"", WS, "int", WS, "//", WS, "a", NL, "}">>,
      <<"Table", WS, "\"t\"", ".", "\"u\"", WS, "{", NL,
        WS, "\"id\"", WS, "int", WS, "//", WS, "b", NL, "}">>,
      <<"Table", WS, "v", WS, "{", NL, WS, "//", WS, "m", NL,
        WS, "\"id\"", WS, "int", NL, "}">>,
      <<"//", WS, "c">>,
      <<"Enum", WS, "e", WS, "{", NL, "}">> }

PipelineSources == {Join(ps) : ps \in SeqsOf(PipelinePieces, 1, MaxPipelinePieces)}

MaxFairLines == 3

\* Sources for the runs of extractComments followed to their end.
FairTexts == {Join(ls) : ls \in SeqsOf(SourceLines, 1, MaxFairLines)}

MaxCallLines == 2

\* Texts handed to each of the three exported functions in turn.
CallTexts == {Join(ls) : ls \in SeqsOf(SourceLines, 1, MaxCallLines)}

\* line.trimEnd()
TrimEnd(line) ==
    LET solid == {k \in 1..Len(line) : line[k] # WS}
    IN  IF solid = {} THEN <<>>
        ELSE SubSeq(line, 1, CHOOSE k \in solid : \A m \in solid : k >= m)

\* The lines of a source without its comments: full-line and multi-line
\* comments are left out, an inline comment is cut off its line.
RECURSIVE StripComments(_, _)
StripComments(lines, i) ==
    IF i >= Len(lines) THEN <<>>
    ELSE LET line == LineAt(lines, i)
             tl == Trim(line)
         IN  IF SingleLineMatch(tl) THEN StripComments(lines, i + 1)
             ELSE IF MultiLineStart(tl)
             THEN StripComments(lines, MultiLineEnd(lines, i) + 1)
             ELSE IF InlineAt(line) # 0
             THEN <<TrimEnd(SubSeq(line, 1, InlineAt(line) - 1))>>
                  \o StripComments(lines, i + 1)
             ELSE <<line>> \o StripComments(lines, i + 1)

\* The orders 1..n can be put in.
OrdersOf(n) == {f \in [1..n -> 1..n] : \A a, b \in 1..n : a # b => f[a] # f[b]}

\* The texts a generator may hand back for a source: the enum, table and ref
\* blocks of the source without its comments, in any order.
Regenerations(source) ==
    LET all == ParseDBMLIntoBlocks(Join(StripComments(Split(source), 0)))
        blocks == SelectSeq(all, LAMBDA b : b.type # "other")
    IN  {Join([k \in 1..Len(blocks) |-> blocks[f[k]].content]) :
            f \in OrdersOf(Len(blocks))}

\* ------------------------------------------------------------------- state

VARIABLES
    pc,               \* the function running and its position
    dbml,             \* the original source text
    ex,               \* the locals of extractComments
    regeneratedDbml,  \* the regenerated text
    originalOrder,    \* the DBMLTableOrder list handed to reorderDBML
    comments,         \* the DBMLComment list handed to mergeComments
    rd,               \* the locals of reorderDBML
    mc,               \* the locals of mergeComments
    out               \* the text a function returned

vars == <<pc, dbml, ex, regeneratedDbml, originalOrder, comments, rd, mc, out>>

Idle == <<>>

\* ------------------------------------------- extractComments, line by line

InitExtract ==
    /\ pc = "extractComments"
    /\ dbml \in SourceTexts
    /\ ex = ExtractStart
    /\ regeneratedDbml = Idle /\ originalOrder = Idle /\ comments = Idle
    /\ rd = Idle /\ mc = Idle /\ out = Idle

\* One pass of the for loop.
ExtractLine ==
    /\ pc = "extractComments"
    /\ ex.i < Len(Split(dbml))
    /\ ex' = ExtractIter(Split(dbml), ex)
    /\ UNCHANGED <<pc, dbml, regeneratedDbml, originalOrder, comments, rd, mc, out>>

\* The loop is over: flush and return comments.
ExtractReturn ==
    /\ pc = "extractComments"
    /\ ex.i >= Len(Split(dbml))
    /\ ex' = ExtractFlush(ex)
    /\ comments' = ex'.comments
    /\ pc' = "extracted"
    /\ UNCHANGED <<dbml, regeneratedDbml, originalOrder, rd, mc, out>>

NextExtract == ExtractLine \/ ExtractReturn

SpecExtract == InitExtract /\ [][NextExtract]_vars

\* extractComments run to completion: the for loop is not abandoned.
InitExtractFair ==
    /\ pc = "extractComments"
    /\ dbml \in FairTexts
    /\ ex = ExtractStart
    /\ regeneratedDbml = Idle /\ originalOrder = Idle /\ comments = Idle
    /\ rd = Idle /\ mc = Idle /\ out = Idle

\* The loop is scheduled until it returns: weak fairness of the return, and
\* of one pass of the loop with its enabling condition, the loop test i <
\* lines.length, written out (a pass always moves the cursor, which
\* C17_MultiLineTerminates checks in every state).
ExtractFairness ==
    /\ WF_vars(ExtractReturn)
    /\ \/ []<>~(pc = "extractComments" /\ ex.i < Len(Split(dbml)))
       \/ []<><<ExtractLine>>_vars

SpecExtractFair == InitExtractFair /\ [][NextExtract]_vars /\ ExtractFairness

\* --------------------------------------- parseDBMLIntoBlocks, line by line

\* rd holds the locals of parseDBMLIntoBlocks.
InitParse ==
    /\ pc = "parseDBMLIntoBlocks"
    /\ regeneratedDbml \in ParseTexts
    /\ rd = ParseStart
    /\ originalOrder = Idle /\ out = Idle
    /\ dbml = Idle /\ ex = Idle /\ comments = Idle /\ mc = Idle

\* One pass of the for loop.
ParseLine ==
    /\ pc = "parseDBMLIntoBlocks"
    /\ rd.i < Len(Split(regeneratedDbml))
    /\ rd' = ParseIter(Split(regeneratedDbml), rd)
    /\ UNCHANGED <<pc, dbml, ex, regeneratedDbml, originalOrder, comments, mc, out>>

\* The loop is over: the open block is flushed and blocks returned.
ParseReturn ==
    /\ pc = "parseDBMLIntoBlocks"
    /\ rd.i >= Len(Split(regeneratedDbml))
    /\ rd' = FlushBlock(rd)
    /\ pc' = "parsed"
    /\ UNCHANGED <<dbml, ex, regeneratedDbml, originalOrder, comments, mc, out>>

NextParse == ParseLine \/ ParseReturn

SpecParse == InitParse /\ [][NextParse]_vars

\* ------------------------------------------------------------- reorderDBML

InitReorder ==
    /\ pc = "parseDBMLIntoBlocks"
    /\ \/ regeneratedDbml \in RegenTexts /\ originalOrder \in OriginalOrders
       \/ regeneratedDbml \in BlankTexts /\ originalOrder \in ShortOrders
    /\ rd = Idle /\ out = Idle
    /\ dbml = Idle /\ ex = Idle /\ comments = Idle /\ mc = Idle

\* const blocks = parseDBMLIntoBlocks(regeneratedDbml)
ReorderParse ==
    /\ pc = "parseDBMLIntoBlocks"
    /\ rd' = [blocks |-> ParseDBMLIntoBlocks(regeneratedDbml)]
    /\ pc' = "sort"
    /\ UNCHANGED <<dbml, ex, regeneratedDbml, originalOrder, comments, mc, out>>

\* The blocks are separated by type and the table blocks sorted.
ReorderSortTables ==
    /\ pc = "sort"
    /\ rd' = ReorderSort(rd.blocks, originalOrder)
    /\ pc' = "rebuild"
    /\ UNCHANGED <<dbml, ex, regeneratedDbml, originalOrder, comments, mc, out>>

\* The text is rebuilt, cleaned up and returned.
ReorderRebuild ==
    /\ pc = "rebuild"
    /\ rd' = ReorderParts(rd)
    /\ out' = ReorderResult(rd')
    /\ pc' = "reordered"
    /\ UNCHANGED <<dbml, ex, regeneratedDbml, originalOrder, comments, mc>>

NextReorder == ReorderParse \/ ReorderSortTables \/ ReorderRebuild

SpecReorder == InitReorder /\ [][NextReorder]_vars

\* reorderDBML on tables only, every order list against every text.
InitLookup ==
    /\ pc = "parseDBMLIntoBlocks"
    /\ regeneratedDbml \in LookupTexts /\ originalOrder \in OriginalOrders
    /\ rd = Idle /\ out = Idle
    /\ dbml = Idle /\ ex = Idle /\ comments = Idle /\ mc = Idle

SpecLookup == InitLookup /\ [][NextReorder]_vars

\* reorderDBML on texts with stray braces.
InitStray ==
    /\ pc = "parseDBMLIntoBlocks"
    /\ regeneratedDbml \in StrayTexts /\ originalOrder \in ShortOrders
    /\ rd = Idle /\ out = Idle
    /\ dbml = Idle /\ ex = Idle /\ comments = Idle /\ mc = Idle

SpecStray == InitStray /\ [][NextReorder]_vars

\* ----------------------------------------------------------- mergeComments

InitMerge ==
    /\ pc = "mergeComments"
    /\ \E input \in MergeInputs : regeneratedDbml = input[1] /\ comments = input[2]
    /\ mc = Idle /\ out = Idle
    /\ dbml = Idle /\ ex = Idle /\ originalOrder = Idle /\ rd = Idle

\* if (comments.length === 0) return regeneratedDbml
MergeReturnInput ==
    /\ pc = "mergeComments"
    /\ Len(comments) = 0
    /\ out' = MergeComments(regeneratedDbml, comments)
    /\ pc' = "merged"
    /\ UNCHANGED <<dbml, ex, regeneratedDbml, originalOrder, comments, rd, mc>>

\* The header comments are pushed and the loop is entered.
MergeBegin ==
    /\ pc = "mergeComments"
    /\ Len(comments) # 0
    /\ mc' = MergeStart(comments)
    /\ pc' = "mergeLoop"
    /\ UNCHANGED <<dbml, ex, regeneratedDbml, originalOrder, comments, rd, out>>

\* One pass of the for loop.
MergeLine ==
    /\ pc = "mergeLoop"
    /\ mc.i < Len(Split(regeneratedDbml))
    /\ mc' = MergeIter(comments, Split(regeneratedDbml), mc)
    /\ UNCHANGED <<pc, dbml, ex, regeneratedDbml, originalOrder, comments, rd, out>>

\* The loop is over: the footer comments are pushed and the result returned.
MergeReturn ==
    /\ pc = "mergeLoop"
    /\ mc.i >= Len(Split(regeneratedDbml))
    /\ mc' = MergeFooter(comments, mc)
    /\ out' = JoinResult(mc'.result)
    /\ pc' = "merged"
    /\ UNCHANGED <<dbml, ex, regeneratedDbml, originalOrder, comments, rd>>

NextMerge == MergeReturnInput \/ MergeBegin \/ MergeLine \/ MergeReturn

SpecMerge == InitMerge /\ [][NextMerge]_vars

\* ---------------------------------------------------------- the round trip

InitPipeline ==
    /\ pc = "extractComments"
    /\ dbml \in PipelineSources
    /\ ex = ExtractStart
    /\ regeneratedDbml = Idle /\ originalOrder = Idle /\ comments = Idle
    /\ rd = Idle /\ mc = Idle /\ out = Idle

\* order := extractTableOrder(original); regenerated := <generator>(model)
PipelineRegenerate ==
    /\ pc = "extracted"
    /\ originalOrder' = ExtractTableOrder(dbml)
    /\ regeneratedDbml' \in Regenerations(dbml)
    /\ pc' = "parseDBMLIntoBlocks"
    /\ UNCHANGED <<dbml, ex, comments, rd, mc, out>>

\* final := mergeComments(reordered, comments)
PipelineMerge ==
    /\ pc = "reordered"
    /\ out' = MergeComments(out, comments)
    /\ pc' = "done"
    /\ UNCHANGED <<dbml, ex, regeneratedDbml, originalOrder, comments, rd, mc>>

NextPipeline ==
    \/ ExtractLine \/ ExtractReturn
    \/ PipelineRegenerate
    \/ ReorderParse \/ ReorderSortTables \/ ReorderRebuild
    \/ PipelineMerge

SpecPipeline == InitPipeline /\ [][NextPipeline]_vars

\* ------------------------------------- the exported functions, called whole

InitCalls ==
    /\ pc = "calls"
    /\ dbml \in CallTexts
    /\ ex = Idle /\ regeneratedDbml = Idle /\ originalOrder = Idle
    /\ comments = Idle /\ rd = Idle /\ mc = Idle /\ out = Idle

\* order := extractTableOrder(dbml)
CallExtractTableOrder ==
    /\ pc = "calls"
    /\ originalOrder' = ExtractTableOrder(dbml)
    /\ pc' = "orderExtracted"
    /\ UNCHANGED <<dbml, ex, regeneratedDbml, comments, rd, mc, out>>

\* comments := extractComments(dbml)
CallExtractComments ==
    /\ pc = "orderExtracted"
    /\ comments' = ExtractComments(dbml)
    /\ pc' = "commentsExtracted"
    /\ UNCHANGED <<dbml, ex, regeneratedDbml, originalOrder, rd, mc, out>>

\* reorderDBML(dbml, order)
CallReorderDBML ==
    /\ pc = "commentsExtracted"
    /\ regeneratedDbml' = dbml
    /\ out' = ReorderDBML(dbml, originalOrder)
    /\ pc' = "callsDone"
    /\ UNCHANGED <<dbml, ex, originalOrder, comments, rd, mc>>

NextCalls == CallExtractTableOrder \/ CallExtractComments \/ CallReorderDBML

SpecCalls == InitCalls /\ [][NextCalls]_vars

\* ----------------------------------------------- claims on extractComments

SourceLinesOf == Split(dbml)
Extracting == pc = "extractComments" /\ ex.i < Len(SourceLinesOf)
TypesOf(cs) == {cs[k].type : k \in 1..Len(cs)}

\* C5: the records of extractComments are in source order: no record whose
\* text starts on a later source line comes before a record whose text starts
\* on an earlier one.
C5_SourceOrder ==
    \A a, b \in 1..Len(ex.comments) :
        a < b => ex.commentLine[a][1] <= ex.commentLine[b][1]

\* C6: every record satisfies the anchor invariant of its kind: Inline has a
\* table name and a field name, Table and Field have a table name and no field
\* name, Header and Footer have no anchor.
C6_AnchorInvariant ==
    \A k \in 1..Len(ex.comments) :
        LET c == ex.comments[k]
        IN  /\ c.type = "inline" => ~Falsy(c.tableName) /\ ~Falsy(c.fieldName)
            /\ c.type \in {"table", "field"} =>
                   ~Falsy(c.tableName) /\ c.fieldName = Undefined
            /\ c.type \in {"header", "footer"} =>
                   c.tableName = Undefined /\ c.fieldName = Undefined

C6_Witness ==
    pc = "extracted" /\ {"table", "inline"} \subseteq TypesOf(comments)

\* C7: a Table header line reached with a non-empty pending buffer emits exactly
\* one record holding the buffered lines joined by newline, a Header with no
\* anchor if no definition was seen before, otherwise a Table record anchored
\* to the table this header names; the pending buffer is empty afterwards.
C7_TableHeaderFlush ==
    [][ LET header == TableMatch(Trim(LineAt(SourceLinesOf, ex.i)))
            named == OrElse(header.g2, header.g3)
        IN  (Extracting /\ header.ok /\ Len(ex.pendingComments) > 0) =>
            /\ ex'.pendingComments = <<>>
            /\ ex'.comments =
                  Append(ex.comments,
                         IF ex.foundFirstDefinition
                         THEN Comment("table", Join(ex.pendingComments), named, Undefined)
                         ELSE Comment("header", Join(ex.pendingComments),
                                      Undefined, Undefined)) ]_vars

\* A Table record was just flushed at the header of table v, after table u.
C7_Witness ==
    /\ pc = "extractComments" /\ ex.i > 0 /\ ex.i <= Len(SourceLinesOf)
    /\ ex.pendingComments = <<>>
    /\ TableMatch(Trim(LineAt(SourceLinesOf, ex.i - 1))).ok
    /\ Len(ex.comments) > 0
    /\ ex.comments[Len(ex.comments)].type = "table"
    /\ ex.comments[Len(ex.comments)].tableName = "v"
    /\ \E k \in 0..(ex.i - 2) : TableMatch(Trim(LineAt(SourceLinesOf, k))).g3 = "u"

\* C8: a Header record is emitted only while no Table or Enum header has been
\* seen: no comment after the first recognized definition becomes a Header.
C8_HeaderBeforeFirstDefinition ==
    [][ \A k \in (Len(ex.comments) + 1)..Len(ex'.comments) :
            ex'.comments[k].type = "header" => ~ex.foundFirstDefinition ]_vars

\* C15: a full-line // comment is emitted at once as a Field record anchored
\* to table T if and only if, before the line is processed, T's header has
\* been seen, T's body has not been closed and the brace depth is above 0;
\* otherwise it is buffered.  A table is open from its header line on, and is
\* closed exactly by a line holding '}' that returns the depth to 0, which
\* leaves no current anchor.
C15_FieldIffInOpenTable ==
    [][ Extracting =>
        LET line == LineAt(SourceLinesOf, ex.i)
            header == TableMatch(Trim(line))
            closing == ex'.braceDepth = 0 /\ CountOf(line, "}") > 0
        IN  /\ SingleLineMatch(Trim(line)) =>
                IF ex.inTableBlock /\ ex.braceDepth > 0
                THEN /\ ex'.comments =
                            Append(ex.comments,
                                   Comment("field", line, ex.currentTable, Undefined))
                     /\ ~Falsy(ex.currentTable)
                     /\ ex'.pendingComments = ex.pendingComments
                ELSE /\ ex'.comments = ex.comments
                     /\ ex'.pendingComments = Append(ex.pendingComments, line)
            /\ ex'.inTableBlock <=> (ex.inTableBlock \/ header.ok) /\ ~closing
            /\ ex'.currentTable =
                   IF ~ex'.inTableBlock THEN Null
                   ELSE IF header.ok THEN OrElse(header.g2, header.g3)
                   ELSE ex.currentTable ]_vars

\* A comment inside table u became a Field record, and a comment after the
\* line that closed u was buffered.
C15_Witness ==
    /\ pc = "extractComments" /\ ex.i > 0 /\ ex.i <= Len(SourceLinesOf)
    /\ \E k \in 1..Len(ex.comments) :
           ex.comments[k].type = "field" /\ ex.comments[k].tableName = "u"
    /\ ~ex.inTableBlock /\ ex.currentTable = Null
    /\ ex.pendingComments = <<LineAt(SourceLinesOf, ex.i - 1)>>
    /\ SingleLineMatch(LineAt(SourceLinesOf, ex.i - 1))

\* The comment text that starts on source line l.
CommentTextAt(l) ==
    IF MultiLineStart(Trim(LineAt(SourceLinesOf, l)))
    THEN MultiLineText(SourceLinesOf, l)
    ELSE LineAt(SourceLinesOf, l)

\* The source lines of the buffered texts flushed into the first n records.
RECURSIVE FlushedLines(_, _)
FlushedLines(s, n) ==
    IF n = 0 THEN <<>>
    ELSE FlushedLines(s, n - 1)
         \o (IF s.comments[n].type \in {"header", "table", "footer"}
             THEN s.commentLine[n] ELSE <<>>)

\* Every buffered text, flushed or still pending, by the line it starts on.
Accounted(s) == FlushedLines(s, Len(s.comments)) \o s.pendingLine

\* C16: every comment put in the pending buffer is emitted in exactly one
\* record by the time extractComments returns, none dropped and none twice;
\* what is pending at the end of the input becomes one Header record if no
\* definition was seen, else one Footer record; the result has at most one
\* Footer record, and it is the last.
C16_PendingEmittedOnce ==
    /\ [](pc \in {"extractComments", "extracted"} =>
            /\ \A a, b \in 1..Len(Accounted(ex)) :
                   a < b => Accounted(ex)[a] < Accounted(ex)[b]
            /\ \A k \in 1..Len(ex.pendingComments) :
                   ex.pendingComments[k] = CommentTextAt(ex.pendingLine[k])
            /\ \A n \in 1..Len(ex.comments) :
                   ex.comments[n].type \in {"header", "table", "footer"} =>
                       ex.comments[n].text =
                           Join([k \in 1..Len(ex.commentLine[n]) |->
                                    CommentTextAt(ex.commentLine[n][k])])
            /\ pc = "extracted" =>
                   /\ ex.pendingComments = <<>> /\ comments = ex.comments
                   /\ \A n \in 1..Len(comments) :
                          comments[n].type = "footer" => n = Len(comments))
    /\ [][ /\ Extracting =>
               Accounted(ex') \in {Accounted(ex), Append(Accounted(ex), ex.i)}
           /\ (pc = "extractComments" /\ pc' = "extracted") =>
               ex'.comments =
                   IF ex.pendingComments = <<>> THEN ex.comments
                   ELSE Append(ex.comments,
                               Comment(IF ex.foundFirstDefinition THEN "footer"
                                       ELSE "header",
                                       Join(ex.pendingComments), Undefined, Undefined))
         ]_vars

\* Two comments buffered after a definition were returned as one Footer.
C16_Witness ==
    /\ pc = "extracted" /\ Len(comments) > 0
    /\ comments[Len(comments)].type = "footer"
    /\ Len(ex.commentLine[Len(comments)]) = 2

\* The last line of the multi-line comment opened on line i: the first line
\* from i on that holds "*/", the last line of the input if there is none.
CommentEnd(i) ==
    LET ends == {j \in i..(Len(SourceLinesOf) - 1) :
                    Includes(LineAt(SourceLinesOf, j), "*/")}
    IN  IF ends = {} THEN Len(SourceLinesOf) - 1
        ELSE CHOOSE j \in ends : \A m \in ends : j <= m

\* C17: extractComments terminates and its cursor strictly increases; a
\* multi-line comment opened on line i is captured as one text, lines i..j
\* joined by newline, j being the first line from i on that holds "*/" or the
\* last line; scanning resumes at line j+1, so lines i+1..j are not classified
\* on their own.
C17_MultiLineTerminates ==
    /\ <>(pc = "extracted")
    /\ [](Extracting => ExtractIter(SourceLinesOf, ex).i > ex.i)
    /\ [][ Extracting =>
           LET i == ex.i
               j == CommentEnd(i)
               text == Join(SubSeq(SourceLinesOf, i + 1, j + 1))
           IN  /\ ex'.i > i
               /\ MultiLineStart(Trim(LineAt(SourceLinesOf, i))) =>
                      /\ ex'.i > j
                      /\ j + 1 < Len(SourceLinesOf) => ex'.i = j + 1
                      /\ \/ /\ ex'.pendingComments = Append(ex.pendingComments, text)
                            /\ ex'.comments = ex.comments
                         \/ /\ ex'.pendingComments = ex.pendingComments
                            /\ Len(ex'.comments) = Len(ex.comments) + 1
                            /\ ex'.comments[Len(ex'.comments)].type = "field"
                            /\ ex'.comments[Len(ex'.comments)].text = text
         ]_vars

\* A comment of two lines was captured as one text and a line is left to scan.
C17_Witness ==
    /\ Extracting /\ ex.i >= 2
    /\ MultiLineStart(Trim(LineAt(SourceLinesOf, ex.i - 2)))
    /\ ex.pendingComments =
           <<Join(<<LineAt(SourceLinesOf, ex.i - 2), LineAt(SourceLinesOf, ex.i - 1)>>)>>

\* '{' minus '}' over the first n source lines.
RECURSIVE LexicalDepth(_)
LexicalDepth(n) ==
    IF n = 0 THEN 0
    ELSE LexicalDepth(n - 1) + CountOf(SourceLinesOf[n], "{") - CountOf(SourceLinesOf[n], "}")

\* The source lines the loop is past: all of them once the cursor left the text.
Scanned == IF ex.i < Len(SourceLinesOf) THEN ex.i ELSE Len(SourceLinesOf)

\* C18: after each pass of the loop of extractComments, braceDepth is the
\* number of '{' minus the number of '}' in all source lines the cursor is
\* past, the lines consumed by a multi-line comment included.
C18_BraceDepthLexical ==
    pc \in {"extractComments", "extracted"} => ex.braceDepth = LexicalDepth(Scanned)

\* --------------------------------------------------- claims on reorderDBML

Reordered == pc = "reordered"

\* The entries of the original order that set the key in orderMap: those whose
\* "schema.table" or bare table name is the key.
EntriesFor(key) ==
    {k \in 1..Len(originalOrder) :
        FullKey(originalOrder[k]) = key \/ Chars(originalOrder[k].tableName) = key}

\* The block's "schema.table" or bare name occurs in the original order.
Matched(b) == EntriesFor(FullKey(b)) \cup EntriesFor(Chars(b.tableName)) # {}

\* The entries of the original order that name the block: those that set its
\* "schema.table" key if there are any, else those that set its bare name.
EntriesOf(b) ==
    IF EntriesFor(FullKey(b)) # {} THEN EntriesFor(FullKey(b))
    ELSE EntriesFor(Chars(b.tableName))

FirstEntryOf(b) == LET entries == EntriesOf(b) IN CHOOSE k \in entries : \A m \in entries : k <= m
LastEntryOf(b) == LET entries == EntriesOf(b) IN CHOOSE k \in entries : \A m \in entries : k >= m

\* (i) matched table blocks precede unmatched ones and (iii) unmatched ones
\* keep the order of the regenerated text.
MatchedFirstUnmatchedStable ==
    \A a, b \in 1..Len(rd.sortedTableBlocks) :
        LET x == rd.sortedTableBlocks[a]
            y == rd.sortedTableBlocks[b]
        IN  /\ a >= b /\ Matched(x) => Matched(y)
            /\ a < b /\ ~Matched(x) /\ ~Matched(y) => x.line < y.line

\* C3 as stated: (i), (iii), and (ii) two matched table blocks appear in the
\* order in which their names first appear in the original order.
C3_FirstAppearanceOrder ==
    Reordered =>
        /\ MatchedFirstUnmatchedStable
        /\ \A a, b \in 1..Len(rd.sortedTableBlocks) :
               LET x == rd.sortedTableBlocks[a]
                   y == rd.sortedTableBlocks[b]
               IN  a < b /\ Matched(x) /\ Matched(y) =>
                       FirstEntryOf(x) <= FirstEntryOf(y)

\* C3 amended: (i), (iii), and (ii) two matched table blocks appear in the order
\* of the last original entries that name them, in the order of the
\* regenerated text if that is the same entry.
C3_LastEntryOrder ==
    Reordered =>
        /\ MatchedFirstUnmatchedStable
        /\ \A a, b \in 1..Len(rd.sortedTableBlocks) :
               LET x == rd.sortedTableBlocks[a]
                   y == rd.sortedTableBlocks[b]
               IN  a < b /\ Matched(x) /\ Matched(y) =>
                       \/ LastEntryOf(x) < LastEntryOf(y)
                       \/ LastEntryOf(x) = LastEntryOf(y) /\ x.line < y.line

\* Two matched tables were swapped and an unmatched one came after them.
C3_Witness ==
    /\ Reordered
    /\ Len(rd.sortedTableBlocks) = 3
    /\ rd.sortedTableBlocks # rd.tableBlocks
    /\ Matched(rd.sortedTableBlocks[1]) /\ Matched(rd.sortedTableBlocks[2])
    /\ rd.sortedTableBlocks[1].line > rd.sortedTableBlocks[2].line
    /\ ~Matched(rd.sortedTableBlocks[3])

\* The last original entry (index from 0) that sets the key.
LastSetting(key) ==
    LET entries == EntriesFor(key)
    IN  (CHOOSE k \in entries : \A m \in entries : k >= m) - 1

\* The index that positions a table block: that of its "schema.table" key if
\* the key is set, else that of its bare name.
PositionOf(b) ==
    IF EntriesFor(FullKey(b)) # {} THEN LastSetting(FullKey(b))
    ELSE LastSetting(Chars(b.tableName))

\* C19: the lookup reorderDBML builds maps every key, a bare table name
\* included, to the index of the last original entry that sets it; a table
\* block is positioned by the index of its "schema.table" key if that key is
\* set and else by the index of its bare name: the sorted blocks come in the
\* order of these indices.
C19_LastWriteWins ==
    pc = "rebuild" =>
        LET orderMap == OrderMapOf(originalOrder, Len(originalOrder))
        IN  /\ \A key \in DOMAIN orderMap : EntriesFor(key) # {}
            /\ \A k \in 1..Len(originalOrder) :
                   /\ Chars(originalOrder[k].tableName) \in DOMAIN orderMap
                   /\ FullKey(originalOrder[k]) \in DOMAIN orderMap
            /\ \A key \in DOMAIN orderMap : orderMap[key] = LastSetting(key)
            /\ \A a, b \in 1..Len(rd.sortedTableBlocks) :
                   LET x == rd.sortedTableBlocks[a]
                       y == rd.sortedTableBlocks[b]
                   IN  a < b /\ Matched(x) /\ Matched(y) => PositionOf(x) <= PositionOf(y)

\* The original order names u, then v, then u again in a schema, and the
\* regenerated u, found by its bare name, was put behind v; or it names
\* "s"."u", then v, then u, and the regenerated "s"."u" was put before v.
C19_Witness ==
    /\ pc = "rebuild"
    /\ Len(originalOrder) = 3
    /\ originalOrder[1].tableName = originalOrder[3].tableName
    /\ originalOrder[1].schemaName # originalOrder[3].schemaName
    /\ \E a, b \in 1..Len(rd.sortedTableBlocks) :
          LET x == rd.sortedTableBlocks[a]
              y == rd.sortedTableBlocks[b]
          IN  /\ a < b
              /\ FullKey(y) = FullKey(originalOrder[2]) \/ FullKey(x) = FullKey(originalOrder[2])
              /\ \/ /\ FullKey(x) = FullKey(originalOrder[2])
                    /\ Falsy(y.schemaName)
                    /\ Falsy(originalOrder[1].schemaName)
                    /\ y.tableName = originalOrder[1].tableName
                    /\ y.line < x.line
                 \/ /\ FullKey(y) = FullKey(originalOrder[2])
                    /\ ~Falsy(x.schemaName)
                    /\ FullKey(x) = FullKey(originalOrder[1])
                    /\ Falsy(originalOrder[3].schemaName)

\* The lines of a block.
BlockLines(b) == Split(b.content)

\* The index of the first line that went into a block: lines.length if none.
FirstKept(lines) == IF rd.blocks = <<>> THEN Len(lines) ELSE rd.blocks[1].line

\* The brace depth before each of the first n lines and after the n-th: '{'
\* minus '}' over the lines before.
RECURSIVE DepthsOf(_, _)
DepthsOf(lines, n) ==
    IF n = 0 THEN <<0>>
    ELSE LET before == DepthsOf(lines, n - 1)
         IN  Append(before, before[n] + CountOf(lines[n], "{") - CountOf(lines[n], "}"))

\* Line n (index from 0) is a Table, Enum or Ref header met at brace depth 0.
HeaderAt(lines, depth, n) ==
    LET tl == Trim(LineAt(lines, n))
    IN  depth[n + 1] = 0 /\ (TableMatch(tl).ok \/ EnumMatch(tl) \/ RefMatch(tl))

\* Line n holds a '}' and returns the depth to 0.
ClosesAt(lines, depth, n) == depth[n + 2] = 0 /\ CountOf(LineAt(lines, n), "}") > 0

\* C20: the blocks parseDBMLIntoBlocks returned are consecutive runs of the
\* input lines, in input order, from the first line kept to the last line; a
\* line is the line of its block verbatim, a blank line met outside a block
\* being kept as ''; a block opened by a header at depth 0 runs to the first
\* line whose '}' returns the depth to 0, else to the line before the next
\* header at depth 0, else to the end; every other block is one line; the
\* lines before the first kept one are blank.
C20_BlocksPartitionLines ==
    pc = "parsed" =>
        LET lines == Split(regeneratedDbml)
            depth == DepthsOf(lines, Len(lines))
        IN
        /\ \A n \in 0..(FirstKept(lines) - 1) : Trim(LineAt(lines, n)) = <<>>
        /\ \A k \in 1..Len(rd.blocks) :
               LET b == rd.blocks[k]
                   last == b.line + Len(BlockLines(b)) - 1
               IN  /\ last + 1 = IF k < Len(rd.blocks) THEN rd.blocks[k + 1].line
                                 ELSE Len(lines)
                   /\ IF b.type = "other"
                      THEN /\ last = b.line
                           /\ ~HeaderAt(lines, depth, b.line)
                           /\ \/ b.content = LineAt(lines, b.line)
                              \/ b.content = <<>> /\ Trim(LineAt(lines, b.line)) = <<>>
                      ELSE /\ HeaderAt(lines, depth, b.line)
                           /\ \A n \in b.line..last :
                                  BlockLines(b)[n - b.line + 1] = LineAt(lines, n)
                           /\ \A n \in b.line..(last - 1) :
                                  ~ClosesAt(lines, depth, n) /\ ~HeaderAt(lines, depth, n + 1)
                           /\ \/ ClosesAt(lines, depth, last)
                              \/ last + 1 = Len(lines)
                              \/ HeaderAt(lines, depth, last + 1)

\* Blank lines before the first block were dropped, a blank line between two
\* blocks was kept, and a block without braces ended at the next header.
C20_Witness ==
    /\ pc = "parsed"
    /\ rd.blocks # <<>> /\ rd.blocks[1].line > 0
    /\ \E k \in 1..Len(rd.blocks) :
          rd.blocks[k].type = "other" /\ rd.blocks[k].content = <<>>
    /\ \E k \in 1..(Len(rd.blocks) - 1) :
          /\ rd.blocks[k].type = "ref"
          /\ CountOf(LineAt(Split(regeneratedDbml), rd.blocks[k + 1].line - 1), "}") = 0

\* How often a line occurs among the lines of a text.
Occurrences(text, line) ==
    LET lines == Split(text)
    IN  Cardinality({k \in 1..Len(lines) : lines[k] = line})

\* C21: every Table header line of the regenerated text that
\* extractTableOrder recognizes occurs in the output of reorderDBML as often
\* as in the regenerated text.
C21_NoTableLost ==
    Reordered =>
        LET lines == Split(regeneratedDbml)
        IN  \A k \in 1..Len(lines) :
                TableMatch(Trim(lines[k])).ok =>
                    Occurrences(out, lines[k]) = Occurrences(regeneratedDbml, lines[k])

TypeRank(type) == IF type = "enum" THEN 1 ELSE IF type = "table" THEN 2 ELSE 3

BlockParts == SelectSeq(rd.resultParts, LAMBDA p : p.type # "separator")
LinesOfType(parts, type) ==
    LET of == SelectSeq(parts, LAMBDA p : p.type = type)
    IN  [k \in 1..Len(of) |-> of[k].line]

\* C4: in the output every enum block precedes every table block and every
\* table block precedes every ref block; the enum blocks are those of the
\* regenerated text in their order, and so are the ref blocks.
C4_EnumsTablesRefs ==
    Reordered =>
        /\ \A a, b \in 1..Len(BlockParts) :
               a < b => TypeRank(BlockParts[a].type) <= TypeRank(BlockParts[b].type)
        /\ LinesOfType(BlockParts, "enum") = LinesOfType(rd.blocks, "enum")
        /\ LinesOfType(BlockParts, "ref") = LinesOfType(rd.blocks, "ref")
        /\ out = EnsureNewline(CollapseBlankLines(JoinParts(rd.resultParts)))

\* The regenerated text had a ref before a table before an enum.
C4_Witness ==
    /\ Reordered
    /\ \E a, b, c \in 1..Len(rd.blocks) :
          /\ a < b /\ b < c
          /\ rd.blocks[a].type = "ref"
          /\ rd.blocks[b].type = "table"
          /\ rd.blocks[c].type = "enum"

\* The line breaks of a text and what lies between two of them.
Breaks(text) == {k \in 1..Len(text) : text[k] = NL}
BlankBetween(text, a, b) == \A k \in (a + 1)..(b - 1) : text[k] \in {WS, NL}

\* C9: the output of reorderDBML never holds three line breaks separated only
\* by whitespace (two consecutive blank lines).
C9_NoTwoBlankLines ==
    Reordered =>
        ~\E a, b, c \in Breaks(out) : a < b /\ b < c /\ BlankBetween(out, a, c)

\* C10: the output of reorderDBML ends with exactly one newline.
C10_OneTrailingNewline ==
    Reordered =>
        /\ EndsWithNL(out)
        /\ ~(Len(out) >= 2 /\ out[Len(out) - 1] = NL)

\* ------------------------------------------------- claims on mergeComments

\* C2: mergeComments(t, []) returns exactly t.
C2_EmptyListReturnsInput ==
    pc = "merged" /\ comments = <<>> => out = regeneratedDbml

\* A text that does not end in a line break went through with no comments.
C2_Witness ==
    /\ pc = "merged" /\ comments = <<>>
    /\ Len(Split(regeneratedDbml)) > 1
    /\ ~EndsWithNL(regeneratedDbml)

\* mergeComments has returned from its loop: mc.result is what it joined.
Merged == pc = "merged" /\ comments # <<>>

RegeneratedLines == Split(regeneratedDbml)

\* The Table header lines of the regenerated text (indices from 0), the table
\* a header names, and the next header line after h (lines.length if none).
HeaderLines ==
    {h \in 0..(Len(RegeneratedLines) - 1) :
        TableMatch(Trim(LineAt(RegeneratedLines, h))).ok}
TableAt(h) ==
    LET tableMatch == TableMatch(Trim(LineAt(RegeneratedLines, h)))
    IN  OrElse(tableMatch.g2, OrElse(tableMatch.g3, tableMatch.g1))
NextHeader(h) ==
    LET later == {k \in HeaderLines : k > h}
    IN  IF later = {} THEN Len(RegeneratedLines)
        ELSE CHOOSE k \in later : \A m \in later : k <= m

\* The texts pushed for reason from while the loop was on lines lo..hi-1.
PushedFor(from, lo, hi) ==
    TextsOf(SelectSeq(mc.result,
                      LAMBDA e : e.from = from /\ e.line >= lo /\ e.line < hi))

\* C12: for every Table header occurrence whose table has bucketed Field
\* comments, the Field comments are emitted exactly once for that occurrence
\* (between its header and the next header), not zero times and not twice.
C12_FieldCommentsOnce ==
    Merged =>
        \A h \in HeaderLines :
            BucketOf(comments, "field", TableAt(h)) # <<>> =>
                PushedFor("field", h, NextHeader(h))
                    = BucketOf(comments, "field", TableAt(h))

\* Where in result the regenerated line h was pushed.
ResultIndexOf(h) ==
    CHOOSE p \in 1..Len(mc.result) :
        mc.result[p].from \in {"line", "inline"} /\ mc.result[p].line = h

\* C13: for each Table header line, at whatever brace depth it is reached: the
\* table's Table comments are the entries directly before the header line, in
\* bucket order; no Field comment is emitted before the header line; and the
\* table's Field comments are emitted directly before the next line of the
\* regenerated text.
C13_CommentPlacement ==
    Merged =>
        \A h \in HeaderLines :
            LET at == ResultIndexOf(h)
                tableBucket == BucketOf(comments, "table", TableAt(h))
                fieldBucket == BucketOf(comments, "field", TableAt(h))
            IN  /\ at > Len(tableBucket)
                /\ \A k \in 1..Len(tableBucket) :
                       LET e == mc.result[at - Len(tableBucket) + k - 1]
                       IN  e.from = "table" /\ e.line = h /\ e.text = tableBucket[k]
                /\ PushedFor("field", h, h + 1) = <<>>
                /\ (h + 1 < Len(RegeneratedLines) /\ (h + 1) \notin HeaderLines) =>
                       /\ PushedFor("field", h + 1, h + 2) = fieldBucket
                       /\ \A k \in 1..Len(fieldBucket) :
                              mc.result[ResultIndexOf(h + 1) - Len(fieldBucket) + k - 1].from
                                  = "field"

\* The Inline records of the comment list anchored to table and field.
InlinesAt(table, field) ==
    {k \in 1..Len(comments) :
        /\ comments[k].type = "inline"
        /\ comments[k].tableName = table /\ comments[k].fieldName = field}

\* C14: a regenerated line is emitted as line + " " + c if and only if it is
\* inside an open table T, its trimmed text begins with a double-quoted token
\* F, it holds no "//", and the list has an Inline record anchored to (T, F);
\* c is the text of the last such record.  Otherwise it is emitted unchanged.
C14_InlineIff ==
    [][ (pc = "mergeLoop" /\ mc.i < Len(RegeneratedLines)) =>
        LET line == LineAt(RegeneratedLines, mc.i)
            fieldName == FieldMatch(Trim(line))
            anchored == InlinesAt(mc.currentTable, fieldName)
            emitted == mc'.result[Len(mc'.result)].text
        IN  IF /\ mc.inTableBlock /\ ~Falsy(mc.currentTable)
               /\ fieldName # Undefined
               /\ ~Includes(line, "//")
               /\ anchored # {}
            THEN emitted = line \o <<WS>>
                     \o comments[CHOOSE k \in anchored : \A m \in anchored : k >= m].text
            ELSE emitted = line ]_vars

\* The entries of result that carry a line of the regenerated text, and those
\* that were inserted.
IsLineEntry(e) == e.from \in {"line", "inline"}
LineEntries == SelectSeq(mc.result, IsLineEntry)
InsertedAt == {p \in 1..Len(mc.result) : ~IsLineEntry(mc.result[p])}

\* The comment list holds a record of the type with the text.
HasComment(type, text) ==
    \E k \in 1..Len(comments) : comments[k].type = type /\ comments[k].text = text

\* C22: with a non-empty comment list, every line of the regenerated text is
\* pushed exactly once and in order, verbatim or followed by " " and the text
\* of an inline comment; every other entry of the result is the text of a
\* header, table, field or footer comment of the list, or one of the two blank
\* separators (after the headers, before the footers); the output is the
\* entries joined, and the line entries without their inline suffixes give
\* back the regenerated text.
C22_OnlyInserts ==
    Merged =>
        LET lines == Split(regeneratedDbml)
            kept == LineEntries
            first == CHOOSE p \in 1..Len(mc.result) : IsLineEntry(mc.result[p])
                         /\ \A q \in 1..(p - 1) : ~IsLineEntry(mc.result[q])
            last == CHOOSE p \in 1..Len(mc.result) : IsLineEntry(mc.result[p])
                         /\ \A q \in (p + 1)..Len(mc.result) : ~IsLineEntry(mc.result[q])
        IN  /\ out = JoinResult(mc.result)
            /\ Len(kept) = Len(lines)
            /\ \A k \in 1..Len(kept) :
                   /\ kept[k].line = k - 1
                   /\ \/ kept[k].text = lines[k]
                      \/ \E c \in 1..Len(comments) :
                            /\ comments[c].type = "inline"
                            /\ kept[k].text = lines[k] \o <<WS>> \o comments[c].text
            /\ Join([k \in 1..Len(kept) |-> lines[kept[k].line + 1]]) = regeneratedDbml
            /\ \A p \in InsertedAt :
                   LET e == mc.result[p]
                   IN  \/ /\ e.from \in {"header", "table", "field", "footer"}
                          /\ HasComment(e.from, e.text)
                       \/ /\ e.from = "blank" /\ e.text = <<>>
                          /\ \/ /\ p < first
                                /\ p > 1 /\ mc.result[p - 1].from = "header"
                             \/ /\ p - 1 = last
                                /\ p < Len(mc.result) /\ mc.result[p + 1].from = "footer"
            /\ \A p \in InsertedAt :
                   /\ mc.result[p].from = "header" => p < first
                   /\ mc.result[p].from = "footer" => p > last
                   /\ mc.result[p].from \in {"table", "field"} => p < last

\* A field line got its inline comment and a comment with its blank
\* separator was added before or after the text.
C22_Witness ==
    /\ Merged
    /\ \E p \in 1..Len(mc.result) : mc.result[p].from = "inline"
    /\ \E p \in 1..Len(mc.result) : mc.result[p].from = "blank"

\* --------------------------------------------------- claims on the round trip

\* text occurs in whole
Occurs(text, whole) ==
    \E k \in 0..(Len(whole) - Len(text)) : SubSeq(whole, k + 1, k + Len(text)) = text

TableNamesOf(text) ==
    LET order == ExtractTableOrder(text) IN {order[k].tableName : k \in 1..Len(order)}

FieldNamesOf(text) ==
    LET lines == Split(text) IN {FieldMatch(Trim(lines[k])) : k \in 1..Len(lines)}

\* The anchor of a record exists in the regenerated text.
AnchorIn(c, text) ==
    \/ c.type \in {"header", "footer"}
    \/ c.type \in {"table", "field"} /\ c.tableName \in TableNamesOf(text)
    \/ /\ c.type = "inline"
       /\ c.tableName \in TableNamesOf(text)
       /\ c.fieldName \in FieldNamesOf(text)

\* C1: after the round trip every comment text that extractComments captured,
\* and whose anchor exists in the regenerated text, occurs in the final text.
C1_RoundTripKeepsComments ==
    pc = "done" =>
        \A k \in 1..Len(comments) :
            AnchorIn(comments[k], regeneratedDbml) => Occurs(comments[k].text, out)

\* ------------------------------------------------ claims on the empty text

\* C11: on the empty string extractTableOrder returns the empty list,
\* extractComments returns the empty list and reorderDBML("", []) returns the
\* text that is one newline.
C11_EmptyString ==
    dbml = <<>> =>
        /\ pc \in {"orderExtracted", "commentsExtracted", "callsDone"} =>
               originalOrder = <<>>
        /\ pc \in {"commentsExtracted", "callsDone"} => comments = <<>>
        /\ pc = "callsDone" => regeneratedDbml = <<>> /\ out = <<NL>>

\* The three functions have returned on the empty string.
C11_Witness == dbml = <<>> /\ pc = "callsDone"

=============================================================================
